---- MODULE Spec2Model ----
(***************************************************************************)
(* xten: a command-line front end that plans and runs ffmpeg / ffprobe.    *)
(*                                                                         *)
(* Python values are modelled as follows.                                  *)
(*   str            a TLA+ string                                          *)
(*   Optional[T]    None is <<>>, a value v is <<v>>                       *)
(*   float          an integral value n is the integer n (durations and    *)
(*                  target sizes); float(s) yields [kind, val] so that NaN *)
(*                  and infinity are told apart from finite values.  The   *)
(*                  product with 0.95 is taken exactly, as 19/20; double   *)
(*                  arithmetic gives the same integer on the inputs drawn  *)
(*                  below (it is one less where the exact product is an    *)
(*                  integer but the quotient target_bits / duration is not *)
(*                  representable, such as 5 MB over 19 seconds).          *)
(*   filesystem     the set fs of the paths that exist                     *)
(***************************************************************************)
EXTENDS Integers, Sequences, FiniteSets, TLC

(***************************************************************************)
(* Bounds of the model.                                                    *)
(***************************************************************************)
MaxLines == 2

MaxSuffix == 1

(***************************************************************************)
(* Python built-ins used by the program.                                   *)
(***************************************************************************)
None == <<>>

Some(v) == <<v>>

Char(s, i) == SubSeq(s, i, i)

Digits == {"0", "1", "2", "3", "4", "5", "6", "7", "8", "9"}

Whitespace == {" ", "\t"}

UpperLetters == "ABCDEFGHIJKLMNOPQRSTUVWXYZ"

LowerLetters == "abcdefghijklmnopqrstuvwxyz"

Max(a, b) == IF a >= b THEN a ELSE b

Min(a, b) == IF a <= b THEN a ELSE b

\* str.strip(): drop leading and trailing whitespace
RECURSIVE LStrip(_)
LStrip(s) ==
    IF Len(s) > 0 /\ Char(s, 1) \in Whitespace THEN LStrip(Tail(s)) ELSE s

RECURSIVE RStrip(_)
RStrip(s) ==
    IF Len(s) > 0 /\ Char(s, Len(s)) \in Whitespace
    THEN RStrip(SubSeq(s, 1, Len(s) - 1))
    ELSE s

Strip(s) == RStrip(LStrip(s))

\* str.lower()
LowerChar(c) ==
    IF \E i \in 1..26 : Char(UpperLetters, i) = c
    THEN Char(LowerLetters, CHOOSE i \in 1..26 : Char(UpperLetters, i) = c)
    ELSE c

RECURSIVE Lower(_)
Lower(s) == IF Len(s) = 0 THEN "" ELSE LowerChar(Char(s, 1)) \o Lower(Tail(s))

\* str.endswith(suffix)
EndsWith(s, suffix) ==
    /\ Len(s) >= Len(suffix)
    /\ SubSeq(s, Len(s) - Len(suffix) + 1, Len(s)) = suffix

StartsWith(s, prefix) ==
    /\ Len(s) >= Len(prefix)
    /\ SubSeq(s, 1, Len(prefix)) = prefix

\* str.replace(old, new): every non-overlapping occurrence, left to right
RECURSIVE Replace(_, _, _)
Replace(s, old, new) ==
    IF Len(s) = 0 THEN ""
    ELSE IF StartsWith(s, old)
         THEN new \o Replace(SubSeq(s, Len(old) + 1, Len(s)), old, new)
         ELSE Char(s, 1) \o Replace(Tail(s), old, new)

\* "sub in s"
Contains(s, sub) ==
    \E i \in 1..(Len(s) - Len(sub) + 1) : SubSeq(s, i, i + Len(sub) - 1) = sub

\* str(x) of an Optional[int]
Str(x) == IF x = None THEN "None" ELSE ToString(x[1])

AllDigits(s) == Len(s) > 0 /\ \A i \in 1..Len(s) : Char(s, i) \in Digits

\* digits, with single underscores allowed between digits ("1_000")
DigitPart(s) ==
    /\ Len(s) > 0
    /\ Char(s, 1) \in Digits
    /\ Char(s, Len(s)) \in Digits
    /\ \A i \in 1..Len(s) : Char(s, i) \in Digits \cup {"_"}
    /\ \A i \in 1..(Len(s) - 1) : ~(Char(s, i) = "_" /\ Char(s, i + 1) = "_")

\* the value of a string of decimal digits
RECURSIVE DigitsValue(_)
DigitsValue(s) ==
    IF Len(s) = 0 THEN 0
    ELSE 10 * DigitsValue(SubSeq(s, 1, Len(s) - 1))
         + (CHOOSE d \in 0..9 : ToString(d) = Char(s, Len(s)))

Unsigned(s) ==
    IF Len(s) > 0 /\ Char(s, 1) \in {"+", "-"} THEN Tail(s) ELSE s

\* mantissa of a float literal: "12", "12.", "12.5", ".5"
Mantissa(s) ==
    \/ DigitPart(s)
    \/ \E i \in 1..Len(s) :
          /\ Char(s, i) = "."
          /\ LET ip == SubSeq(s, 1, i - 1)
                 fp == SubSeq(s, i + 1, Len(s))
             IN  /\ ip = "" \/ DigitPart(ip)
                 /\ fp = "" \/ DigitPart(fp)
                 /\ ip # "" \/ fp # ""

\* exponent part: "", "e3", "E-3"
Exponent(s) ==
    \/ s = ""
    \/ /\ Len(s) >= 2
       /\ Char(s, 1) \in {"e", "E"}
       /\ DigitPart(Unsigned(Tail(s)))

\* float(s) does not raise ValueError
FloatOk(s) ==
    LET u == Unsigned(Strip(s))
    IN  \/ Lower(u) \in {"nan", "inf", "infinity"}
        \/ \E i \in 0..Len(u) :
              Mantissa(SubSeq(u, 1, i)) /\ Exponent(SubSeq(u, i + 1, Len(u)))

\* float(s), for the literals FloatOk accepts; of the finite ones the model
\* evaluates those that are a plain string of digits
Float(s) ==
    LET t == Strip(s)
        u == Unsigned(t)
    IN  IF Lower(u) = "nan" THEN [kind |-> "nan", val |-> 0]
        ELSE IF Lower(u) \in {"inf", "infinity"} THEN [kind |-> "inf", val |-> 0]
        ELSE IF Char(t, 1) = "-" THEN [kind |-> "fin", val |-> 0 - DigitsValue(u)]
        ELSE [kind |-> "fin", val |-> DigitsValue(u)]

\* int(x) of a quotient a / b of integers: truncation toward zero
Trunc(a, b) == IF a >= 0 THEN a \div b ELSE 0 - ((0 - a) \div b)

\* int(s) does not raise ValueError, and its value
IntOk(s) == DigitPart(Unsigned(Strip(s)))

ParseInt(s) ==
    LET t == Strip(s)
    IN  IF Char(t, 1) = "-" THEN 0 - DigitsValue(Unsigned(t))
        ELSE DigitsValue(Unsigned(t))

\* " ".join(seq)
RECURSIVE Join(_, _)
Join(seq, sep) ==
    IF Len(seq) = 0 THEN ""
    ELSE IF Len(seq) = 1 THEN seq[1]
    ELSE seq[1] \o sep \o Join(Tail(seq), sep)

\* os.path.splitext(p): <<root, ext>>
LastIndexOf(p, c) ==
    IF \E i \in 1..Len(p) : Char(p, i) = c
    THEN CHOOSE i \in 1..Len(p) :
            Char(p, i) = c /\ \A j \in (i + 1)..Len(p) : Char(p, j) # c
    ELSE 0

SplitExt(p) ==
    LET sepIndex == LastIndexOf(p, "/")
        dotIndex == LastIndexOf(p, ".")
    IN  IF /\ dotIndex > sepIndex
           /\ \E k \in (sepIndex + 1)..(dotIndex - 1) : Char(p, k) # "."
        THEN <<SubSeq(p, 1, dotIndex - 1), SubSeq(p, dotIndex, Len(p))>>
        ELSE <<p, "">>

(***************************************************************************)
(* xten/commands/compress.py, xten/commands/trim.py: constants and helpers *)
(***************************************************************************)
VALID_PRESETS ==
    {"ultrafast", "superfast", "veryfast", "faster", "fast",
     "medium", "slow", "slower", "veryslow"}

\* resolve_output_name: the while-loop from counter on
RECURSIVE ResolveFrom(_, _, _, _)
ResolveFrom(name, ext, counter, files) ==
    LET candidate == name \o "_" \o ToString(counter) \o ext
    IN  IF candidate \notin files THEN candidate
        ELSE ResolveFrom(name, ext, counter + 1, files)

\* resolve_output_name with the loop dropped: the first suffix, unchecked
ResolveOutputNameNoLoop(base_path, files) ==
    IF base_path \notin files THEN base_path
    ELSE SplitExt(base_path)[1] \o "_1" \o SplitExt(base_path)[2]

\* resolve_output_name(base_path), os.path.exists read from files
ResolveOutputName(base_path, files) ==
    IF base_path \notin files THEN base_path
    ELSE ResolveFrom(SplitExt(base_path)[1], SplitExt(base_path)[2], 1, files)

\* build_target_plan without the floor of 100000 on the video bitrate
BuildTargetPlanNoFloor(input_file, target_mb, preset, force, duration, files) ==
    LET audio_bitrate == 128000
        target_bits   == target_mb * 8 * 1024 * 1024
        total_bitrate == Trunc(target_bits * 19, duration * 20)
        video_bitrate == total_bitrate - audio_bitrate
        base_output   == SplitExt(input_file)[1] \o "_xten.mp4"
        output_file   == IF force THEN base_output
                         ELSE ResolveOutputName(base_output, files)
        cmd == <<"ffmpeg">> \o (IF force THEN <<"-y">> ELSE <<>>) \o
               <<"-i", input_file,
                 "-b:v", ToString(video_bitrate),
                 "-b:a", ToString(audio_bitrate),
                 "-preset", preset,
                 "-movflags", "+faststart",
                 output_file>>
    IN  [input_file    |-> input_file,
         output_file   |-> output_file,
         duration      |-> duration,
         mode          |-> "target",
         target_mb     |-> Some(target_mb),
         video_bitrate |-> Some(video_bitrate),
         audio_bitrate |-> Some(audio_bitrate),
         crf           |-> None,
         preset        |-> preset,
         command       |-> cmd]

\* build_target_plan, given what get_duration returned (duration > 0)
BuildTargetPlan(input_file, target_mb, preset, force, duration, files) ==
    LET audio_bitrate == 128000
        target_bits   == target_mb * 8 * 1024 * 1024
        total_bitrate == Trunc(target_bits * 19, duration * 20)
        video_bitrate == Max(total_bitrate - audio_bitrate, 100000)
        base_output   == SplitExt(input_file)[1] \o "_xten.mp4"
        output_file   == IF force THEN base_output
                         ELSE ResolveOutputName(base_output, files)
        cmd == <<"ffmpeg">> \o (IF force THEN <<"-y">> ELSE <<>>) \o
               <<"-i", input_file,
                 "-b:v", ToString(video_bitrate),
                 "-b:a", ToString(audio_bitrate),
                 "-preset", preset,
                 "-movflags", "+faststart",
                 output_file>>
    IN  [input_file    |-> input_file,
         output_file   |-> output_file,
         duration      |-> duration,
         mode          |-> "target",
         target_mb     |-> Some(target_mb),
         video_bitrate |-> Some(video_bitrate),
         audio_bitrate |-> Some(audio_bitrate),
         crf           |-> None,
         preset        |-> preset,
         command       |-> cmd]

\* build_crf_plan; crf is the Optional[int] the caller passes
BuildCrfPlan(input_file, crf, preset, force, duration, files) ==
    LET base_output == SplitExt(input_file)[1] \o "_xten.mp4"
        output_file == IF force THEN base_output
                       ELSE ResolveOutputName(base_output, files)
        cmd == <<"ffmpeg">> \o (IF force THEN <<"-y">> ELSE <<>>) \o
               <<"-i", input_file,
                 "-crf", Str(crf),
                 "-preset", preset,
                 "-movflags", "+faststart",
                 output_file>>
    IN  [input_file    |-> input_file,
         output_file   |-> output_file,
         duration      |-> duration,
         mode          |-> "crf",
         target_mb     |-> None,
         video_bitrate |-> None,
         audio_bitrate |-> None,
         crf           |-> crf,
         preset        |-> preset,
         command       |-> cmd]

\* normalize_time_label raises ValueError
TimeLabelRaises(t) ==
    \/ Strip(t) = ""
    \/ ~FloatOk(Strip(t)) /\ ~Contains(Strip(t), ":")

\* normalize_time_label(t) when it returns
NormalizeTimeLabel(t) == Strip(t)

\* build_trim_plan whose command resolves the output path on its own, so
\* that it depends on the filesystem beyond the output_file field
BuildTrimPlanHiddenState(input_file, start, end, force, duration, files) ==
    LET base_output == SplitExt(input_file)[1] \o "_xten_trim.mp4"
        output_file == IF force THEN base_output
                       ELSE ResolveOutputName(base_output, files)
        cmd == <<"ffmpeg">> \o (IF force THEN <<"-y">> ELSE <<>>) \o
               <<"-ss", start,
                 "-to", end,
                 "-i", input_file,
                 "-c", "copy",
                 "-movflags", "+faststart",
                 ResolveOutputName(base_output, files)>>
    IN  [input_file  |-> input_file,
         output_file |-> output_file,
         duration    |-> duration,
         start       |-> start,
         end         |-> end,
         command     |-> cmd]

\* build_trim_plan
BuildTrimPlan(input_file, start, end, force, duration, files) ==
    LET base_output == SplitExt(input_file)[1] \o "_xten_trim.mp4"
        output_file == IF force THEN base_output
                       ELSE ResolveOutputName(base_output, files)
        cmd == <<"ffmpeg">> \o (IF force THEN <<"-y">> ELSE <<>>) \o
               <<"-ss", start,
                 "-to", end,
                 "-i", input_file,
                 "-c", "copy",
                 "-movflags", "+faststart",
                 output_file>>
    IN  [input_file  |-> input_file,
         output_file |-> output_file,
         duration    |-> duration,
         start       |-> start,
         end         |-> end,
         command     |-> cmd]

(***************************************************************************)
(* Inputs of a run: command lines, prompt answers, tool outcomes.          *)
(***************************************************************************)
InputFile == "movie.mp4"

\* a default output with its first MaxSuffix collision suffixes
SuffixedOutputs(base) ==
    {base} \cup {SplitExt(base)[1] \o "_" \o ToString(k) \o SplitExt(base)[2] :
                    k \in 1..MaxSuffix}

\* the default output of a command for InputFile
BaseOutput(cmd) ==
    IF cmd = "trim" THEN SplitExt(InputFile)[1] \o "_xten_trim.mp4"
    ELSE SplitExt(InputFile)[1] \o "_xten.mp4"

\* the paths whose existence a run of cmd reads
FsUniverse(cmd) ==
    IF cmd = "info" THEN {InputFile}
    ELSE {InputFile} \cup SuffixedOutputs(BaseOutput(cmd))

TargetOptions ==
    {None, Some(""), Some("8mb"), Some("1MB"), Some("8"), Some("mb"), Some("nanmb")}

CrfOptions == {None, Some(23)}

PresetOptions == {None, Some("slow"), Some("ultraslow")}

LabelOptions == {None, Some(" 12.5 "), Some("00:12"), Some("abc"), Some("nan")}

\* what the user may type at a prompt
TargetAnswers == {"", "8mb", "8"}

CrfAnswers == {"", "18", "x"}

PresetAnswers == {"", "fast"}

LabelAnswers == {"", " ", "7", "abc"}

\* what get_duration returns: None when it raises (ffprobe missing or failed,
\* output without format.duration), else the duration in seconds
ProbeResults == {None, Some(0), Some(1), Some(300)}

DefaultArgs ==
    [via |-> "app", cmd |-> "compress", version |-> FALSE,
     input_file |-> InputFile, dry_run |-> FALSE, force |-> FALSE,
     json_output |-> FALSE,
     target |-> None, crf |-> None, preset |-> None,
     start |-> None, end |-> None]

CompressArgs ==
    {[DefaultArgs EXCEPT !.dry_run = d, !.force = f,
                         !.target = t, !.crf = c, !.preset = p] :
        d \in BOOLEAN, f \in BOOLEAN,
        t \in TargetOptions, c \in CrfOptions, p \in PresetOptions}

TrimArgs ==
    {[DefaultArgs EXCEPT !.via = v, !.cmd = "trim", !.dry_run = d, !.force = f,
                         !.start = s, !.end = e] :
        v \in {"app", "call"}, d \in BOOLEAN, f \in BOOLEAN,
        s \in LabelOptions, e \in LabelOptions}

InfoArgs ==
    {[DefaultArgs EXCEPT !.cmd = "info", !.json_output = j] : j \in BOOLEAN}

VersionArgs ==
    {[DefaultArgs EXCEPT !.cmd = c, !.version = TRUE] : c \in {"compress", "info"}}

Argv == CompressArgs \cup TrimArgs \cup InfoArgs \cup VersionArgs

(***************************************************************************)
(* State.                                                                  *)
(***************************************************************************)
VARIABLES
    pc,             \* position of the run in the program
    argv,           \* the command line of the run
    opts,           \* the parameters target, crf, preset, start, end, which
                    \* the collectors reassign
    target_mb,      \* compress(): target_mb, None until parsed
    duration,       \* trim(): duration, None until probed
    plan,           \* the CompressionPlan / TrimPlan built, None before
    fs,             \* the paths that exist
    out,            \* what was printed, in order
    trace,          \* the pipeline stages and external calls, in order
    proc,           \* the encoder subprocess
    completed,      \* the completed value of the progress task, None before
    exit_code,      \* the exit code of the process, None while it runs
    error           \* the failure the run ended with, None if none

vars == <<pc, argv, opts, target_mb, duration, plan, fs,
          out, trace, proc, completed, exit_code, error>>

NoProc == [state |-> "none", emitted |-> 0, line |-> None, returncode |-> None]

Init ==
    /\ pc = "start"
    /\ argv \in Argv
    /\ opts = [target |-> argv.target, crf |-> argv.crf, preset |-> argv.preset,
               start |-> argv.start, end |-> argv.end]
    /\ target_mb = None
    /\ duration = None
    /\ plan = None
    /\ fs \in SUBSET FsUniverse(argv.cmd)
    /\ out = <<>>
    /\ trace = <<>>
    /\ proc = NoProc
    /\ completed = None
    /\ exit_code = None
    /\ error = None

\* "not x" for an Optional[str]
Falsy(x) == x = None \/ x = Some("")

\* Prompt.ask: an empty answer yields the default when there is one, any
\* other answer is returned stripped
PromptAsk(answer, default) ==
    IF answer = "" /\ default # None THEN default[1] ELSE Strip(answer)

\* raise typer.Exit(code) after printing msgs
Exit(code, err, msgs) ==
    /\ pc' = "done"
    /\ exit_code' = Some(code)
    /\ error' = err
    /\ out' = out \o msgs

\* an exception no handler catches: traceback, exit code 1
Raise(exc) == Exit(1, Some(exc), <<"Traceback">>)

(***************************************************************************)
(* xten/cli.py                                                             *)
(***************************************************************************)
\* the commands registered on app
RegisteredCommands == {"compress", "info"}

\* app(): the subcommand name is resolved among the registered commands
\* (an unknown name is a usage error, exit code 2)
App ==
    /\ pc = "start"
    /\ argv.via = "app"
    /\ IF argv.cmd \in RegisteredCommands
       THEN /\ pc' = "main"
            /\ UNCHANGED <<exit_code, error, out>>
       ELSE Exit(2, Some("NoSuchCommand"), <<"No such command">>)
    /\ UNCHANGED <<argv, opts, target_mb, duration, plan, fs,
                   trace, proc, completed>>

\* main(): the callback of app, run before the subcommand
Main ==
    /\ pc = "main"
    /\ IF argv.version
       THEN Exit(1, None, <<"xten 0.1.0">>)
       ELSE /\ pc' = argv.cmd
            /\ UNCHANGED <<exit_code, error, out>>
    /\ UNCHANGED <<argv, opts, target_mb, duration, plan, fs,
                   trace, proc, completed>>

\* trim() called as a function (it is not registered on app)
CallTrim ==
    /\ pc = "start"
    /\ argv.via = "call"
    /\ argv.cmd = "trim"
    /\ pc' = "trim"
    /\ UNCHANGED <<argv, opts, target_mb, duration, plan, fs,
                   out, trace, proc, completed, exit_code, error>>

(***************************************************************************)
(* xten/commands/compress.py: compress()                                   *)
(***************************************************************************)
\* header, then the check that the input exists
CompressCheckInput ==
    /\ pc = "compress"
    /\ trace' = trace \o <<"compress", "Precheck">>
    /\ IF argv.input_file \notin fs
       THEN Exit(1, Some("MissingInput"),
                 <<"header", "Input file not found.">>)
       ELSE /\ pc' = "c_tool"
            /\ out' = Append(out, "header")
            /\ UNCHANGED <<exit_code, error>>
    /\ UNCHANGED <<argv, opts, target_mb, duration, plan, fs,
                   proc, completed>>

\* the check that shutil.which finds ffmpeg in PATH
CompressCheckTool ==
    /\ pc = "c_tool"
    /\ trace' = Append(trace, "Precheck")
    /\ \E found \in BOOLEAN :
          IF ~found
          THEN Exit(1, Some("MissingTool"), <<"ffmpeg not found in PATH.">>)
          ELSE /\ pc' = "c_collect"
               /\ UNCHANGED <<exit_code, error, out>>
    /\ UNCHANGED <<argv, opts, target_mb, duration, plan, fs,
                   proc, completed>>

\* collect_compression_settings: the mode prompt, for the answers given
CollectMode(choice, target_answer, crf_answer) ==
    IF Falsy(opts.target) /\ opts.crf = None
    THEN IF choice = "1"
         THEN [target |-> Some(PromptAsk(target_answer, None)),
               crf |-> opts.crf, raises |-> FALSE]
         ELSE IF IntOk(PromptAsk(crf_answer, Some("23")))
              THEN [target |-> opts.target,
                    crf |-> Some(ParseInt(PromptAsk(crf_answer, Some("23")))),
                    raises |-> FALSE]
              ELSE [target |-> opts.target, crf |-> opts.crf, raises |-> TRUE]
    ELSE [target |-> opts.target, crf |-> opts.crf, raises |-> FALSE]

\* collect_compression_settings: the preset prompt (Prompt.ask with choices
\* returns a member of VALID_PRESETS or the default)
CollectPreset(preset_answer) ==
    IF Falsy(opts.preset)
    THEN Some(PromptAsk(preset_answer, Some("slow")))
    ELSE opts.preset

CompressCollect ==
    /\ pc = "c_collect"
    /\ trace' = Append(trace, "CollectInputs")
    /\ \E choice \in {"1", "2"}, target_answer \in TargetAnswers,
          crf_answer \in CrfAnswers, preset_answer \in PresetAnswers :
          LET m == CollectMode(choice, target_answer, crf_answer)
          IN  IF m.raises
              THEN /\ Raise("ValueError")
                   /\ UNCHANGED opts
              ELSE /\ opts' = [opts EXCEPT !.target = m.target, !.crf = m.crf,
                                           !.preset = CollectPreset(preset_answer)]
                   /\ pc' = "c_preset"
                   /\ UNCHANGED <<exit_code, error, out>>
    /\ UNCHANGED <<argv, target_mb, duration, plan, fs,
                   proc, completed>>

\* the preset must be one of VALID_PRESETS
CompressValidatePreset ==
    /\ pc = "c_preset"
    /\ trace' = Append(trace, "Validate:preset")
    /\ IF opts.preset[1] \notin VALID_PRESETS
       THEN Exit(1, Some("InvalidPreset"), <<"Invalid preset.">>)
       ELSE /\ pc' = "c_target"
            /\ UNCHANGED <<exit_code, error, out>>
    /\ UNCHANGED <<argv, opts, target_mb, duration, plan, fs,
                   proc, completed>>

\* a target must end in "mb" and the rest must parse as a float
CompressValidateTarget ==
    /\ pc = "c_target"
    /\ IF ~Falsy(opts.target)
       THEN /\ trace' = Append(trace, "Validate:target")
            /\ IF ~EndsWith(Lower(opts.target[1]), "mb")
               THEN /\ Exit(1, Some("InvalidTargetFormat"),
                            <<"Target must be specified in MB (e.g. 8mb).">>)
                    /\ UNCHANGED target_mb
               ELSE IF ~FloatOk(Replace(Lower(opts.target[1]), "mb", ""))
               THEN /\ Raise("ValueError")
                    /\ UNCHANGED target_mb
               ELSE /\ target_mb' =
                          Some(Float(Replace(Lower(opts.target[1]), "mb", "")))
                    /\ pc' = "c_build_target"
                    /\ UNCHANGED <<exit_code, error, out>>
       ELSE /\ pc' = "c_build_crf"
            /\ UNCHANGED <<trace, target_mb, exit_code, error, out>>
    /\ UNCHANGED <<argv, opts, duration, plan, fs,
                   proc, completed>>

\* build_target_plan: get_duration, then the plan
CompressBuildTarget ==
    /\ pc = "c_build_target"
    /\ \E probed \in ProbeResults :
          IF probed = None
          THEN /\ Raise("ProbeFailure")
               /\ trace' = Append(trace, "ProbeDuration")
               /\ UNCHANGED plan
          ELSE IF probed[1] = 0
          THEN /\ Raise("ZeroDivisionError")
               /\ trace' = Append(trace, "ProbeDuration")
               /\ UNCHANGED plan
          ELSE IF target_mb[1].kind # "fin"
          THEN /\ Raise("ValueError")
               /\ trace' = Append(trace, "ProbeDuration")
               /\ UNCHANGED plan
          ELSE /\ plan' = Some(BuildTargetPlan(argv.input_file, target_mb[1].val,
                                               opts.preset[1], argv.force,
                                               probed[1], fs))
               /\ trace' = trace \o <<"ProbeDuration", "BuildPlan">>
               /\ pc' = "c_render"
               /\ UNCHANGED <<exit_code, error, out>>
    /\ UNCHANGED <<argv, opts, target_mb, duration, fs,
                   proc, completed>>

\* build_crf_plan: get_duration, then the plan
CompressBuildCrf ==
    /\ pc = "c_build_crf"
    /\ \E probed \in ProbeResults :
          IF probed = None
          THEN /\ Raise("ProbeFailure")
               /\ trace' = Append(trace, "ProbeDuration")
               /\ UNCHANGED plan
          ELSE /\ plan' = Some(BuildCrfPlan(argv.input_file, opts.crf,
                                            opts.preset[1], argv.force,
                                            probed[1], fs))
               /\ trace' = trace \o <<"ProbeDuration", "BuildPlan">>
               /\ pc' = "c_render"
               /\ UNCHANGED <<exit_code, error, out>>
    /\ UNCHANGED <<argv, opts, target_mb, duration, fs,
                   proc, completed>>

\* render_plan of compress.py (plan.video_bitrate // 1000 needs a bitrate)
CompressRender ==
    /\ pc = "c_render"
    /\ trace' = Append(trace, "RenderPlan")
    /\ out' = out \o (IF plan[1].mode = "target"
                      THEN <<"Input", "Output", "Preset", "Duration",
                             "Target", "Video Bitrate", "Audio Bitrate">>
                      ELSE <<"Input", "Output", "Preset", "Duration", "CRF">>)
    /\ pc' = "c_dry"
    /\ UNCHANGED <<argv, opts, target_mb, duration, plan, fs,
                   proc, completed, exit_code, error>>

\* --dry-run: the preview, then exit; else execute_plan
CompressDryRun ==
    /\ pc = "c_dry"
    /\ IF argv.dry_run
       THEN /\ Exit(0, None, <<"Dry run mode", "Command Preview:",
                                Join(plan[1].command, " ")>>)
            /\ trace' = Append(trace, "DryRunExit")
       ELSE /\ pc' = "x_popen"
            /\ UNCHANGED <<trace, exit_code, error, out>>
    /\ UNCHANGED <<argv, opts, target_mb, duration, plan, fs,
                   proc, completed>>

(***************************************************************************)
(* xten/commands/trim.py: trim()                                           *)
(***************************************************************************)
\* f"{duration:.2f}" of an integral duration
Format2f(d) == ToString(d) \o ".00"

TrimCheckInput ==
    /\ pc = "trim"
    /\ trace' = trace \o <<"trim", "Precheck">>
    /\ IF argv.input_file \notin fs
       THEN Exit(1, Some("MissingInput"),
                 <<"header", "Input file not found.">>)
       ELSE /\ pc' = "t_tool"
            /\ out' = Append(out, "header")
            /\ UNCHANGED <<exit_code, error>>
    /\ UNCHANGED <<argv, opts, target_mb, duration, plan, fs,
                   proc, completed>>

TrimCheckTool ==
    /\ pc = "t_tool"
    /\ trace' = Append(trace, "Precheck")
    /\ \E found \in BOOLEAN :
          IF ~found
          THEN Exit(1, Some("MissingTool"), <<"ffmpeg not found in PATH.">>)
          ELSE /\ pc' = "t_probe"
               /\ UNCHANGED <<exit_code, error, out>>
    /\ UNCHANGED <<argv, opts, target_mb, duration, plan, fs,
                   proc, completed>>

\* duration = get_duration(input_file)
TrimProbe ==
    /\ pc = "t_probe"
    /\ trace' = Append(trace, "ProbeDuration")
    /\ \E probed \in ProbeResults :
          IF probed = None
          THEN /\ Raise("ProbeFailure")
               /\ UNCHANGED duration
          ELSE /\ duration' = probed
               /\ pc' = "t_collect"
               /\ UNCHANGED <<exit_code, error, out>>
    /\ UNCHANGED <<argv, opts, target_mb, plan, fs,
                   proc, completed>>

\* collect_trim_settings: the labels after the prompts, before normalization
CollectLabel(given, answer, default) ==
    IF Falsy(given) THEN PromptAsk(answer, Some(default)) ELSE given[1]

\* collect_trim_settings: prompts for the labels not given, then
\* normalize_time_label on both
TrimCollect ==
    /\ pc = "t_collect"
    /\ \E start_answer \in LabelAnswers, end_answer \in LabelAnswers :
          LET start == CollectLabel(opts.start, start_answer, "0")
              end   == CollectLabel(opts.end, end_answer, Format2f(duration[1]))
          IN  IF TimeLabelRaises(start) \/ TimeLabelRaises(end)
              THEN /\ Exit(1, Some("InvalidTime"), <<"Duration", "Traceback">>)
                   /\ trace' = trace \o <<"CollectInputs", "Validate:time">>
                   /\ UNCHANGED opts
              ELSE /\ opts' = [opts EXCEPT !.start = Some(NormalizeTimeLabel(start)),
                                           !.end = Some(NormalizeTimeLabel(end))]
                   /\ trace' = trace \o <<"CollectInputs", "Validate:time">>
                   /\ out' = Append(out, "Duration")
                   /\ pc' = "t_build"
                   /\ UNCHANGED <<exit_code, error>>
    /\ UNCHANGED <<argv, target_mb, duration, plan, fs,
                   proc, completed>>

\* build_trim_plan: get_duration again, then the plan
TrimBuild ==
    /\ pc = "t_build"
    /\ \E probed \in ProbeResults :
          IF probed = None
          THEN /\ Raise("ProbeFailure")
               /\ trace' = Append(trace, "ProbeDuration")
               /\ UNCHANGED plan
          ELSE /\ plan' = Some(BuildTrimPlan(argv.input_file, opts.start[1],
                                             opts.end[1], argv.force,
                                             probed[1], fs))
               /\ trace' = trace \o <<"ProbeDuration", "BuildPlan">>
               /\ pc' = "t_render"
               /\ UNCHANGED <<exit_code, error, out>>
    /\ UNCHANGED <<argv, opts, target_mb, duration, fs,
                   proc, completed>>

\* render_plan of trim.py
TrimRender ==
    /\ pc = "t_render"
    /\ trace' = Append(trace, "RenderPlan")
    /\ out' = out \o <<"Input", "Output", "Start", "End">>
    /\ pc' = "t_dry"
    /\ UNCHANGED <<argv, opts, target_mb, duration, plan, fs,
                   proc, completed, exit_code, error>>

\* the dry-run branch without its exit: the preview, then execute_plan
TrimDryRunFallsThrough ==
    /\ pc = "t_dry"
    /\ IF argv.dry_run
       THEN /\ out' = out \o <<"Dry run mode", "Command Preview:",
                               Join(plan[1].command, " ")>>
            /\ pc' = "x_popen"
            /\ UNCHANGED <<trace, exit_code, error>>
       ELSE /\ pc' = "x_popen"
            /\ UNCHANGED <<trace, exit_code, error, out>>
    /\ UNCHANGED <<argv, opts, target_mb, duration, plan, fs,
                   proc, completed>>

TrimDryRun ==
    /\ pc = "t_dry"
    /\ IF argv.dry_run
       THEN /\ Exit(0, None, <<"Dry run mode", "Command Preview:",
                                Join(plan[1].command, " ")>>)
            /\ trace' = Append(trace, "DryRunExit")
       ELSE /\ pc' = "x_popen"
            /\ UNCHANGED <<trace, exit_code, error, out>>
    /\ UNCHANGED <<argv, opts, target_mb, duration, plan, fs,
                   proc, completed>>

(***************************************************************************)
(* execute_plan of compress.py and of trim.py.  Times are in hundredths of *)
(* a second; the encoder prints two decimals.                              *)
(***************************************************************************)
StderrLines ==
    {"frame=    1 fps=0.0 q=0.0",
     "size=1kB time=00:00:00.50 bitrate=1k",
     "size=9kB time=00:10:00.00 speed=2x",
     "size=N/A time=N/A bitrate=N/A"}

ReturnCodes == {0, 1}

\* the length of the longest run of digits of s that starts at i
RECURSIVE DigitRun(_, _)
DigitRun(s, i) ==
    IF i <= Len(s) /\ Char(s, i) \in Digits THEN 1 + DigitRun(s, i + 1) ELSE 0

\* r"time=(\d+):(\d+):(\d+\.\d+)" matches s at i: the groups, or <<>>
TimeMatchAt(s, i) ==
    LET h0 == i + 5
        hn == DigitRun(s, h0)
        m0 == h0 + hn + 1
        mn == DigitRun(s, m0)
        s0 == m0 + mn + 1
        sn == DigitRun(s, s0)
        f0 == s0 + sn + 1
        fn == DigitRun(s, f0)
    IN  IF /\ i + 4 <= Len(s)
           /\ SubSeq(s, i, i + 4) = "time="
           /\ hn > 0 /\ h0 + hn <= Len(s) /\ Char(s, h0 + hn) = ":"
           /\ mn > 0 /\ m0 + mn <= Len(s) /\ Char(s, m0 + mn) = ":"
           /\ sn > 0 /\ s0 + sn <= Len(s) /\ Char(s, s0 + sn) = "."
           /\ fn > 0
        THEN <<SubSeq(s, h0, h0 + hn - 1), SubSeq(s, m0, m0 + mn - 1),
               SubSeq(s, s0, s0 + sn - 1), SubSeq(s, f0, f0 + fn - 1)>>
        ELSE <<>>

\* parse_ffmpeg_time_to_seconds(line), and the same inline code of
\* compress.py: None, or the time of the leftmost match
ParseFfmpegTimeToSeconds(line) ==
    IF \E i \in 1..Len(line) : TimeMatchAt(line, i) # <<>>
    THEN LET i == CHOOSE k \in 1..Len(line) :
                     /\ TimeMatchAt(line, k) # <<>>
                     /\ \A j \in 1..(k - 1) : TimeMatchAt(line, j) = <<>>
             g == TimeMatchAt(line, i)
         IN  Some((DigitsValue(g[1]) * 3600 + DigitsValue(g[2]) * 60
                   + DigitsValue(g[3])) * 100
                  + DigitsValue(SubSeq(g[4] \o "0", 1, 2)))
    ELSE None

\* the completed value after a line, never bounded by the duration
ProgressUpdateNoClamp(cmd, line, total, current) ==
    LET t == ParseFfmpegTimeToSeconds(line)
    IN  IF t = None THEN current ELSE t

\* the completed value after a line: compress.py passes the time as it is,
\* trim.py bounds it by the duration
ProgressUpdate(cmd, line, total, current) ==
    LET t == ParseFfmpegTimeToSeconds(line)
    IN  IF t = None THEN current
        ELSE IF cmd = "trim" THEN Some(Min(t[1], total * 100))
        ELSE t

\* subprocess.Popen(plan.command, ...) and progress.add_task
ExecutePopen ==
    /\ pc = "x_popen"
    /\ proc' = [state |-> "running", emitted |-> 0, line |-> None,
                returncode |-> None]
    /\ completed' = Some(0)
    /\ trace' = Append(trace, "Execute")
    /\ pc' = "x_read"
    /\ UNCHANGED <<argv, opts, target_mb, duration, plan, fs,
                   out, exit_code, error>>

\* for line in process.stderr: one line read, or the end of the stream
ExecuteReadLine ==
    /\ pc = "x_read"
    /\ \/ /\ proc.emitted < MaxLines
          /\ \E line \in StderrLines :
                /\ completed' = ProgressUpdate(argv.cmd, line, plan[1].duration,
                                               completed)
                /\ proc' = [proc EXCEPT !.emitted = @ + 1, !.line = Some(line)]
          /\ pc' = "x_read"
       \/ /\ proc' = [proc EXCEPT !.state = "eof"]
          /\ pc' = "x_wait"
          /\ UNCHANGED completed
    /\ UNCHANGED <<argv, opts, target_mb, duration, plan, fs,
                   out, trace, exit_code, error>>

\* process.wait(): the encoder has exited; it wrote its output file if it
\* succeeded, and may have left one if it failed
ExecuteWait ==
    /\ pc = "x_wait"
    /\ \E rc \in ReturnCodes :
          /\ proc' = [proc EXCEPT !.state = "exited", !.returncode = Some(rc)]
          /\ \/ fs' = fs \cup {plan[1].output_file}
             \/ rc # 0 /\ fs' = fs
    /\ pc' = "x_report"
    /\ UNCHANGED <<argv, opts, target_mb, duration, plan,
                   out, trace, completed, exit_code, error>>

\* the report without the return code check
ExecuteReportIgnoresReturnCode ==
    /\ pc = "x_report"
    /\ trace' = Append(trace, "ReportResult")
    /\ Exit(0, None, <<"Final Size", "Done.">>)
    /\ UNCHANGED <<argv, opts, target_mb, duration, plan, fs,
                   proc, completed>>

\* the report that starts the encoder once more after a failure
ExecuteReportRetries ==
    /\ pc = "x_report"
    /\ trace' = Append(trace, "ReportResult")
    /\ IF proc.returncode # Some(0)
       THEN IF Len(SelectSeq(trace, LAMBDA e : e = "Execute")) < 2
            THEN /\ pc' = "x_popen"
                 /\ out' = Append(out, "ffmpeg failed.")
                 /\ UNCHANGED <<exit_code, error>>
            ELSE Exit(1, Some("ExternalToolFailure"), <<"ffmpeg failed.">>)
       ELSE Exit(0, None, <<"Final Size", "Done.">>)
    /\ UNCHANGED <<argv, opts, target_mb, duration, plan, fs,
                   proc, completed>>

\* the return code check, then the size report
ExecuteReport ==
    /\ pc = "x_report"
    /\ trace' = Append(trace, "ReportResult")
    /\ IF proc.returncode # Some(0)
       THEN Exit(1, Some("ExternalToolFailure"), <<"ffmpeg failed.">>)
       ELSE Exit(0, None, <<"Final Size", "Done.">>)
    /\ UNCHANGED <<argv, opts, target_mb, duration, plan, fs,
                   proc, completed>>

(***************************************************************************)
(* xten/commands/info.py: info()                                           *)
(***************************************************************************)
InfoCheckInput ==
    /\ pc = "info"
    /\ trace' = trace \o <<"info", "Precheck">>
    /\ IF argv.input_file \notin fs
       THEN Exit(0, Some("MissingInput"),
                 <<"header", "Input file not found.">>)
       ELSE /\ pc' = "i_probe"
            /\ out' = Append(out, "header")
            /\ UNCHANGED <<exit_code, error>>
    /\ UNCHANGED <<argv, opts, target_mb, duration, plan, fs,
                   proc, completed>>

\* subprocess.run(ffprobe ...): it raises when ffprobe is missing
InfoProbe ==
    /\ pc = "i_probe"
    /\ trace' = Append(trace, "Probe")
    /\ \E result \in {"missing", "failed", "ok"} :
          IF result = "missing" THEN Raise("FileNotFoundError")
          ELSE IF result = "failed"
          THEN Exit(1, Some("ExternalToolFailure"), <<"ffprobe failed.">>)
          ELSE /\ pc' = "i_report"
               /\ UNCHANGED <<exit_code, error, out>>
    /\ UNCHANGED <<argv, opts, target_mb, duration, plan, fs,
                   proc, completed>>

\* the raw JSON, or the report
InfoReport ==
    /\ pc = "i_report"
    /\ trace' = Append(trace, "ReportResult")
    /\ IF argv.json_output
       THEN Exit(0, None, <<"json">>)
       ELSE Exit(0, None, <<"File", "Size", "Duration", "Streams">>)
    /\ UNCHANGED <<argv, opts, target_mb, duration, plan, fs,
                   proc, completed>>

(***************************************************************************)
(* Specification.                                                          *)
(***************************************************************************)
Next ==
    \/ App
    \/ Main
    \/ CallTrim
    \/ CompressCheckInput
    \/ CompressCheckTool
    \/ CompressCollect
    \/ CompressValidatePreset
    \/ CompressValidateTarget
    \/ CompressBuildTarget
    \/ CompressBuildCrf
    \/ CompressRender
    \/ CompressDryRun
    \/ TrimCheckInput
    \/ TrimCheckTool
    \/ TrimProbe
    \/ TrimCollect
    \/ TrimBuild
    \/ TrimRender
    \/ TrimDryRun
    \/ ExecutePopen
    \/ ExecuteReadLine
    \/ ExecuteWait
    \/ ExecuteReport
    \/ InfoCheckInput
    \/ InfoProbe
    \/ InfoReport

Spec == Init /\ [][Next]_vars

(***************************************************************************)
(* Properties.                                                             *)
(***************************************************************************)
Range(seq) == {seq[i] : i \in 1..Len(seq)}

Last(seq) == seq[Len(seq)]

\* the argument that follows flag in a command
ArgAfter(cmd, flag) == cmd[(CHOOSE i \in 1..(Len(cmd) - 1) : cmd[i] = flag) + 1]

IsCompressPlan == argv.cmd = "compress" /\ plan # None

IsTrimPlan == argv.cmd = "trim" /\ plan # None

Candidate(p, k) ==
    IF k = 0 THEN p
    ELSE SplitExt(p)[1] \o "_" \o ToString(k) \o SplitExt(p)[2]

BasePaths == {"movie.mp4", "movie_xten.mp4", "movie_xten_trim.mp4", "clip"}

\* C2: resolve_output_name(p) returns the first path of p, stem_1.ext,
\* stem_2.ext, ... that does not exist: p itself when p does not exist, never
\* an existing path; a plan built without --force has that output path.
C2_ResolveFirstFree ==
    /\ pc \in {"start", "done"} => \A p \in BasePaths :
          LET r == ResolveOutputName(p, fs)
          IN  /\ r \notin fs
              /\ p \notin fs => r = p
              /\ \E k \in 0..Cardinality(fs) :
                    /\ r = Candidate(p, k)
                    /\ \A j \in 0..(k - 1) : Candidate(p, j) \in fs
    /\ (plan # None /\ ~argv.force /\ pc \in {"c_render", "t_render"}) =>
          /\ plan[1].output_file \notin fs
          /\ \E k \in 0..Cardinality(fs) :
                /\ plan[1].output_file = Candidate(BaseOutput(argv.cmd), k)
                /\ \A j \in 0..(k - 1) : Candidate(BaseOutput(argv.cmd), j) \in fs

\* C2 witness: the default output and its first suffix exist, the plan takes
\* the second suffix
C2_Witness ==
    /\ pc = "c_render"
    /\ ~argv.force
    /\ {"movie_xten.mp4", "movie_xten_1.mp4"} \subseteq fs
    /\ plan[1].output_file = "movie_xten_2.mp4"

ValidationOrToolFailures ==
    {"MissingInput", "MissingTool", "InvalidPreset", "InvalidTargetFormat",
     "ExternalToolFailure"}

\* C3: a finished run has exit code 0 exactly when it succeeded, and exit
\* code 1 when a validation step or an external tool failed.
C3_ExitCodes ==
    pc = "done" =>
        /\ exit_code = Some(0) <=> error = None
        /\ (error # None /\ error[1] \in ValidationOrToolFailures) =>
              exit_code = Some(1)

\* C4: a subcommand invoked through the app runs its own pipeline.
C4_Dispatch ==
    (pc = "done" /\ argv.via = "app" /\ ~argv.version) =>
        /\ trace # <<>>
        /\ trace[1] = argv.cmd

\* C5: when the encoder exits with a non-zero status the run ends with exit
\* code 1 after "ffmpeg failed.", and "Final Size" and "Done." are printed
\* only once the stream was read to its end and the encoder exited with 0.
C5_EncoderFailure ==
    /\ (pc = "done" /\ proc.returncode # None /\ proc.returncode # Some(0)) =>
          /\ exit_code = Some(1)
          /\ Last(out) = "ffmpeg failed."
    /\ (proc.returncode # None /\ proc.returncode # Some(0)) =>
          /\ "Final Size" \notin Range(out)
          /\ "Done." \notin Range(out)
    /\ ("Final Size" \in Range(out) \/ "Done." \in Range(out)) =>
          /\ proc.state = "exited"
          /\ proc.returncode = Some(0)
          /\ plan[1].output_file \in fs

\* C5 witness: a run whose encoder read lines and then failed
C5_Witness ==
    /\ pc = "done"
    /\ proc.emitted > 0
    /\ proc.returncode = Some(1)
    /\ exit_code = Some(1)
    /\ "ffmpeg failed." \in Range(out)

C7_ExactlyOneMode ==
    IsCompressPlan =>
        LET p == plan[1]
        IN  /\ p.mode = "target" =>
                  /\ p.target_mb # None
                  /\ p.video_bitrate # None
                  /\ p.audio_bitrate # None
                  /\ p.crf = None
            /\ p.mode = "crf" =>
                  /\ p.crf # None
                  /\ p.target_mb = None
                  /\ p.video_bitrate = None
                  /\ p.audio_bitrate = None

\* the plan the builder of the run yields for another force and filesystem
RebuiltPlan(force, files) ==
    LET p == plan[1]
    IN  IF argv.cmd = "trim"
        THEN BuildTrimPlan(p.input_file, p.start, p.end, force, p.duration, files)
        ELSE IF p.mode = "target"
        THEN BuildTargetPlan(p.input_file, p.target_mb[1], p.preset, force,
                             p.duration, files)
        ELSE BuildCrfPlan(p.input_file, p.crf, p.preset, force, p.duration, files)

\* two plans agree on every field other than command
SameOtherFields(p, q) == [p EXCEPT !.command = <<>>] = [q EXCEPT !.command = <<>>]

\* C8: two plans of the builders that agree on every field other than
\* command have the same command, whatever force and the filesystem were.
C8_CommandDetermined ==
    (plan # None /\ pc \in {"c_render", "t_render"}) =>
        \A force \in BOOLEAN, files \in SUBSET FsUniverse(argv.cmd) :
            SameOtherFields(plan[1], RebuiltPlan(force, files)) =>
                RebuiltPlan(force, files).command = plan[1].command

\* C8 as amended: two plans built with the same force that agree on every
\* field other than command have the same command, whatever the filesystem
\* was; with different force they differ in the -y argument.
C8_CommandDeterminedGivenForce ==
    (plan # None /\ pc \in {"c_render", "t_render"}) =>
        \A force \in BOOLEAN, files \in SUBSET FsUniverse(argv.cmd) :
            SameOtherFields(plan[1], RebuiltPlan(force, files)) =>
                /\ force = argv.force =>
                      RebuiltPlan(force, files).command = plan[1].command
                /\ force # argv.force =>
                      RebuiltPlan(force, files).command # plan[1].command

\* C8 witness: a plan built with --force over an existing output; the same
\* builder on a filesystem without it yields the same fields
C8_Witness ==
    /\ pc = "t_render"
    /\ argv.force
    /\ plan[1].output_file \in fs
    /\ SameOtherFields(plan[1], RebuiltPlan(TRUE, {"movie.mp4"}))
    /\ SameOtherFields(plan[1], RebuiltPlan(FALSE, {"movie.mp4"}))

\* a decimal number: digits with at most one point, after an optional sign
DecimalNumber(s) ==
    LET u == Unsigned(s)
    IN  \/ AllDigits(u)
        \/ \E i \in 1..Len(u) :
              /\ Char(u, i) = "."
              /\ SubSeq(u, 1, i - 1) = "" \/ AllDigits(SubSeq(u, 1, i - 1))
              /\ SubSeq(u, i + 1, Len(u)) = "" \/ AllDigits(SubSeq(u, i + 1, Len(u)))
              /\ Len(u) > 1

\* C9: every TrimPlan has start and end labels that are stripped, non-empty
\* and either a decimal number or contain a colon; a run that fails with
\* InvalidTime builds no plan and starts no encoder.
C9_ValidLabels ==
    /\ IsTrimPlan =>
          \A label \in {plan[1].start, plan[1].end} :
              /\ label # ""
              /\ label = Strip(label)
              /\ DecimalNumber(label) \/ Contains(label, ":")
    /\ error = Some("InvalidTime") => plan = None /\ proc = NoProc

\* the stage an event of the trace belongs to, "" for the others
Stage(e) ==
    IF e \in {"Validate:preset", "Validate:target", "Validate:time"}
    THEN "Validate"
    ELSE IF e \in {"CollectInputs", "ProbeDuration", "BuildPlan", "RenderPlan",
                   "DryRunExit", "Execute", "ReportResult"}
    THEN e
    ELSE ""

\* the stages a trace visits, in order; successive validations are one visit
RECURSIVE Stages(_)
Stages(t) ==
    IF Len(t) = 0 THEN <<>>
    ELSE LET rest == Stages(SubSeq(t, 1, Len(t) - 1))
             st   == Stage(Last(t))
         IN  IF st = "" THEN rest
             ELSE IF st = "Validate" /\ Len(rest) > 0 /\ Last(rest) = "Validate"
             THEN rest
             ELSE Append(rest, st)

IsPrefix(a, b) == Len(a) <= Len(b) /\ SubSeq(b, 1, Len(a)) = a

PipelineDryRun ==
    <<"CollectInputs", "Validate", "ProbeDuration", "BuildPlan", "RenderPlan",
      "DryRunExit">>

PipelineExecute ==
    <<"CollectInputs", "Validate", "ProbeDuration", "BuildPlan", "RenderPlan",
      "Execute", "ReportResult">>

\* C10: a compress or trim run visits CollectInputs, Validate, ProbeDuration,
\* BuildPlan, RenderPlan, then DryRunExit or Execute and ReportResult, each
\* at most once: one probe, after validation, and one encoder start.
C10_StageOrder ==
    argv.cmd \in {"compress", "trim"} =>
        \/ IsPrefix(Stages(trace), PipelineDryRun)
        \/ IsPrefix(Stages(trace), PipelineExecute)

\* C10 as amended: a compress run visits the stages in that order; a trim run
\* visits ProbeDuration first and then the same stages, so it probes before
\* the labels are collected and validated and once more to build the plan;
\* the encoder is started at most once.
C10_StageOrderAmended ==
    /\ argv.cmd = "compress" =>
          \/ IsPrefix(Stages(trace), PipelineDryRun)
          \/ IsPrefix(Stages(trace), PipelineExecute)
    /\ argv.cmd = "trim" =>
          \/ IsPrefix(Stages(trace), <<"ProbeDuration">> \o PipelineDryRun)
          \/ IsPrefix(Stages(trace), <<"ProbeDuration">> \o PipelineExecute)

\* C10 witness: a trim run that went through every stage
C10_Witness ==
    /\ pc = "done"
    /\ argv.cmd = "trim"
    /\ Stages(trace) = <<"ProbeDuration">> \o PipelineExecute

\* a two-digit field of a time token
TwoDigits(n) == IF n < 10 THEN "0" \o ToString(n) ELSE ToString(n)

\* the token time=HH:MM:SS.ss of h hours, m minutes, sec seconds and c
\* hundredths
TimeToken(h, m, sec, c) ==
    "time=" \o TwoDigits(h) \o ":" \o TwoDigits(m) \o ":" \o TwoDigits(sec)
            \o "." \o TwoDigits(c)

\* the times the tokens of the lines drawn can carry
TokenTimes == {0, 1} \X {0, 10} \X {0, 1} \X {0, 50}

HasTimeToken(line) ==
    \E t \in TokenTimes : Contains(line, TimeToken(t[1], t[2], t[3], t[4]))

\* hours*3600 + minutes*60 + seconds of the token of a line, in hundredths
TokenTime(line) ==
    LET t == CHOOSE u \in TokenTimes :
                 Contains(line, TimeToken(u[1], u[2], u[3], u[4]))
    IN  (t[1] * 3600 + t[2] * 60 + t[3]) * 100 + t[4]

ReadsLine == pc = "x_read" /\ pc' = "x_read"

\* C11: in both executors completed stays within 0..plan.duration; a line
\* with a time=HH:MM:SS.ss token sets completed to hours*3600 + minutes*60 +
\* seconds, clamped to the duration; any other line leaves it unchanged.
C11_ProgressBounded ==
    [][/\ completed' # None =>
             /\ 0 <= completed'[1]
             /\ completed'[1] <= plan'[1].duration * 100
       /\ ReadsLine =>
             IF HasTimeToken(proc'.line[1])
             THEN completed' = Some(Min(TokenTime(proc'.line[1]),
                                        plan[1].duration * 100))
             ELSE completed' = completed]_vars

\* C11 as amended: the trim executor keeps completed within 0..plan.duration
\* and sets it to the time of the token clamped to the duration; the
\* compress executor sets it to the time of the token as it is, which is at
\* least 0 and exceeds the duration when the encoder reports a later time;
\* in both, a line without a token leaves completed unchanged.
C11_ProgressBoundedInTrim ==
    [][/\ completed' # None =>
             /\ 0 <= completed'[1]
             /\ argv.cmd = "trim" => completed'[1] <= plan'[1].duration * 100
       /\ ReadsLine =>
             IF HasTimeToken(proc'.line[1])
             THEN IF argv.cmd = "trim"
                  THEN completed' = Some(Min(TokenTime(proc'.line[1]),
                                             plan[1].duration * 100))
                  ELSE completed' = Some(TokenTime(proc'.line[1]))
             ELSE completed' = completed]_vars

\* C11 witness: the trim executor read a line whose time is past the
\* duration of 300 seconds, after a line that set completed to 0.50
C11_Witness ==
    /\ pc = "x_read"
    /\ argv.cmd = "trim"
    /\ plan[1].duration = 300
    /\ proc.emitted = 2
    /\ proc.line = Some("size=9kB time=00:10:00.00 speed=2x")
    /\ completed = Some(30000)

====
